---- MODULE Spec2Model ----
(***************************************************************************)
(* Model of app.py (Grocery Market Basket Analysis): the transaction       *)
(* loader, the co-occurrence count of the Product Analysis page, the       *)
(* recommendation loop of the Recommendations page and the filter/sort of  *)
(* the Association Rules page.                                             *)
(*                                                                         *)
(* Metrics (confidence, lift, support) and slider values are floats in the *)
(* source; only their order is used (>, >=, sort), so they are modelled as *)
(* small integers standing for ordered levels.                             *)
(***************************************************************************)
EXTENDS Integers, Sequences, FiniteSets, TLC

VARIABLES
    pc,                 \* position in the script
    df,                 \* raw rows of groceries.csv (load_data)
    i,                  \* row the load_data loop is at (1-based)
    transactions,       \* list of transactions
    item_freq,          \* item -> frequency
    selected_product,   \* product chosen on the Product Analysis page
    tpos,               \* transaction the co-occurrence loop is at (1-based)
    co_occurrences,     \* Counter item -> count
    co_occur_df,        \* the sorted, truncated co-occurrence table
    rules,              \* the rules DataFrame: sequence of rows (position = index label)
    selected_products,  \* the cart chosen in the multiselect
    recommendations,    \* dict consequent -> {confidence, lift, support}
    idx,                \* row of rules the iterrows loop is at (1-based)
    min_confidence,     \* slider values of the Association Rules page
    min_lift,
    min_support,
    filtered_rules      \* index labels of the filtered, sorted rules

loadVars == <<df, i, item_freq>>
coVars == <<selected_product, tpos, co_occurrences, co_occur_df>>
recVars == <<selected_products, recommendations, idx>>
filterVars == <<min_confidence, min_lift, min_support, filtered_rules>>

vars == <<pc, transactions, rules, loadVars, coVars, recVars, filterVars>>

-----------------------------------------------------------------------------
(* Bounds *)
MaxRules == 2           \* rows of rules on the Recommendations page
MaxRows == 2            \* rows of groceries.csv
MaxCells == 3           \* cells of a row
MaxStrLen == 2          \* characters of a cell
MaxTrans == 2           \* transactions on the Product Analysis page
MaxTransLen == 3        \* items of a transaction
MaxFilterRules == 3     \* rows of rules on the Association Rules page

-----------------------------------------------------------------------------
(* Input universes *)
Items == {"A", "B"}

\* (confidence, lift, support) levels of a rule row: two confidence ties that
\* differ in lift and support, at two confidence levels
Metrics == { <<1, 1, 2>>, <<1, 2, 1>>, <<2, 1, 1>>, <<2, 2, 2>> }

RuleRows == { [antecedents |-> a, consequents |-> c,
               confidence |-> m[1], lift |-> m[2], support |-> m[3]] :
              a \in SUBSET Items, c \in (SUBSET Items) \ {{}}, m \in Metrics }

RECURSIVE SeqsUpTo(_, _)
SeqsUpTo(S, n) ==
    IF n = 0 THEN { <<>> }
    ELSE LET shorter == SeqsUpTo(S, n - 1)
         IN  shorter \cup { Append(s, x) : s \in { t \in shorter : Len(t) = n - 1 }, x \in S }

EmptyMap == [x \in {} |-> 0]

\* values of the variables a page does not use
LoadIdle == df = <<>> /\ i = 1 /\ item_freq = EmptyMap
CoIdle == selected_product = "" /\ tpos = 1 /\ co_occurrences = EmptyMap /\ co_occur_df = <<>>
RecIdle == selected_products = {} /\ recommendations = EmptyMap /\ idx = 1
FilterIdle == min_confidence = 1 /\ min_lift = 1 /\ min_support = 1 /\ filtered_rules = <<>>

-----------------------------------------------------------------------------
(* Recommendations page *)

\* if selected_products:
CartNonEmpty_mut(cart) == TRUE
CartNonEmpty(cart) == cart # {}

\* all(item in selected_products for item in antecedents)
AntecedentMatches_mut(row, cart) == \E item \in row.antecedents : item \in cart
AntecedentMatches(row, cart) == \A item \in row.antecedents : item \in cart

\* if consequent not in selected_products
NotInCart_mut(consequent, cart) == TRUE
NotInCart(consequent, cart) == consequent \notin cart

\* row['confidence'] > recommendations[consequent]['confidence']
Better_lt(row, rec) == row.confidence < rec.confidence
Better_ge(row, rec) == row.confidence >= rec.confidence
Better(row, rec) == row.confidence > rec.confidence

\* {'confidence': row['confidence'], 'lift': row['lift'], 'support': row['support']}
RowEntry(row) ==
    [confidence |-> row.confidence, lift |-> row.lift, support |-> row.support]

\* body of the iterrows loop for one row
ProcessRow(recs, row, cart) ==
    IF AntecedentMatches(row, cart)
    THEN LET hit == { c \in row.consequents : NotInCart(c, cart) }
         IN  [x \in (DOMAIN recs) \cup hit |->
                IF x \in hit
                THEN IF x \notin DOMAIN recs THEN RowEntry(row)
                     ELSE IF Better(row, recs[x]) THEN RowEntry(row)
                     ELSE recs[x]
                ELSE recs[x]]
    ELSE recs

InitRec ==
    /\ pc = "start"
    /\ rules \in SeqsUpTo(RuleRows, MaxRules)
    /\ selected_products \in SUBSET Items
    /\ recommendations = EmptyMap
    /\ idx = 1
    /\ transactions = <<>>
    /\ LoadIdle /\ CoIdle /\ FilterIdle

\* if selected_products: recommendations = {} ... else: st.info(...)
\* (with an empty cart the page builds no mapping: recommendations stays empty)
RecStart ==
    /\ pc = "start"
    /\ IF CartNonEmpty(selected_products)
       THEN pc' = "loop" /\ recommendations' = EmptyMap
       ELSE pc' = "info_select" /\ UNCHANGED recommendations
    /\ idx' = 1
    /\ UNCHANGED <<rules, selected_products, transactions, loadVars, coVars, filterVars>>

\* one iteration of: for idx, row in rules.iterrows()
RecRow ==
    /\ pc = "loop"
    /\ idx <= Len(rules)
    /\ recommendations' = ProcessRow(recommendations, rules[idx], selected_products)
    /\ idx' = idx + 1
    /\ UNCHANGED <<pc, rules, selected_products, transactions, loadVars, coVars, filterVars>>

\* if recommendations: (show them) else: st.info("No specific recommendations found")
RecFinish ==
    /\ pc = "loop"
    /\ idx > Len(rules)
    /\ pc' = IF DOMAIN recommendations # {} THEN "shown" ELSE "info_none"
    /\ UNCHANGED <<rules, recVars, transactions, loadVars, coVars, filterVars>>

NextRec == RecStart \/ RecRow \/ RecFinish

SpecRec == InitRec /\ [][NextRec]_vars

-----------------------------------------------------------------------------
(* Properties of the Recommendations page *)

\* rows the loop has already been through
Processed == IF pc = "start" \/ pc = "info_select" THEN {} ELSE 1 .. (idx - 1)

RecDone == pc \in {"shown", "info_none"}

\* processed rows whose antecedent is a subset of the cart and whose consequent has x
Matching(x) ==
    { k \in Processed : rules[k].antecedents \subseteq selected_products
                        /\ x \in rules[k].consequents }

MaxOf(S) == CHOOSE m \in S : \A n \in S : n <= m
MinOf(S) == CHOOSE m \in S : \A n \in S : m <= n

BestConfidence(x) == MaxOf({ rules[k].confidence : k \in Matching(x) })

FirstBest(x) == MinOf({ k \in Matching(x) : rules[k].confidence = BestConfidence(x) })

\* the whole loop over a rule list
RECURSIVE Recommend(_, _, _)
Recommend(rs, cart, recs) ==
    IF rs = <<>> THEN recs
    ELSE Recommend(Tail(rs), cart, ProcessRow(recs, Head(rs), cart))

Reorderings(n) == { f \in [1 .. n -> 1 .. n] : \A a, b \in 1 .. n : f[a] = f[b] => a = b }

\* C1: no item of the cart is ever a key of recommendations, neither while the
\* rules are being processed nor at the end.
C1_NoCartItemRecommended ==
    \A x \in DOMAIN recommendations : x \notin selected_products

C1_Witness ==
    /\ pc = "shown"
    /\ \E k \in 1 .. Len(rules) :
          /\ rules[k].antecedents \subseteq selected_products
          /\ rules[k].consequents \cap selected_products # {}
          /\ rules[k].consequents \ selected_products # {}

\* C2: the recorded confidence of a recommended item is the maximum confidence
\* over the rules whose antecedent is a subset of the cart and whose consequent
\* contains the item, so every reordering of the rule list records the same
\* confidence.
C2_MaxConfidence ==
    /\ DOMAIN recommendations = { x \in Items \ selected_products : Matching(x) # {} }
    /\ \A x \in DOMAIN recommendations :
          recommendations[x].confidence = BestConfidence(x)
    /\ RecDone =>
          \A f \in Reorderings(Len(rules)) :
             LET other == Recommend([k \in 1 .. Len(rules) |-> rules[f[k]]],
                                    selected_products, EmptyMap)
             IN  /\ DOMAIN other = DOMAIN recommendations
                 /\ \A x \in DOMAIN other :
                       other[x].confidence = recommendations[x].confidence

C2_Witness ==
    /\ RecDone
    /\ Len(rules) = 2
    /\ rules[1].confidence # rules[2].confidence
    /\ \E x \in DOMAIN recommendations : Matching(x) = {1, 2}

\* C7: an empty cart gives an empty mapping whatever the rules are (a rule
\* with an empty antecedent included), and a non-empty cart that no rule's
\* antecedent is a subset of gives an empty mapping; both end in an info
\* message.
C7_EmptyResults ==
    /\ (selected_products = {} /\ pc # "start") =>
          (pc = "info_select" /\ DOMAIN recommendations = {})
    /\ (RecDone /\ \A k \in 1 .. Len(rules) :
                      ~(rules[k].antecedents \subseteq selected_products)) =>
          (pc = "info_none" /\ DOMAIN recommendations = {})

C7_Witness ==
    /\ pc = "info_select"
    /\ selected_products = {}
    /\ \E k \in 1 .. Len(rules) : rules[k].antecedents = {}

\* C9: the (confidence, lift, support) recorded for an item is that of the
\* first rule, in rule order, among the matching rules of maximal confidence;
\* lift and support come from that same rule.
C9_FirstBestRule ==
    \A x \in DOMAIN recommendations :
       LET r == rules[FirstBest(x)]
       IN  recommendations[x] =
             [confidence |-> r.confidence, lift |-> r.lift, support |-> r.support]

C9_Witness ==
    /\ RecDone
    /\ Len(rules) = 2
    /\ rules[1].confidence = rules[2].confidence
    /\ rules[1].lift # rules[2].lift
    /\ \E x \in DOMAIN recommendations : Matching(x) = {1, 2}

-----------------------------------------------------------------------------
(* load_data: groceries.csv rows to transactions *)

\* A cell is NaN (absent; read_csv reads an empty field as NaN) or text, a
\* non-empty sequence of characters; an item is the stripped text of a cell.
Chars == {" ", "a"}
NaN == [na |-> TRUE, text |-> <<>>]
Cells == {NaN} \cup { [na |-> FALSE, text |-> t] : t \in SeqsUpTo(Chars, MaxStrLen) \ {<<>>} }
RawRows == SeqsUpTo(Cells, MaxCells)

RECURSIVE LStrip(_)
LStrip(t) == IF t # <<>> /\ Head(t) = " " THEN LStrip(Tail(t)) ELSE t

RECURSIVE RStrip(_)
RStrip(t) ==
    IF t # <<>> /\ t[Len(t)] = " " THEN RStrip(SubSeq(t, 1, Len(t) - 1)) ELSE t

\* str(item).strip()
Strip(t) == RStrip(LStrip(t))

\* pd.notna(item) and str(item).strip() != ''
KeepCell(cell) == ~cell.na /\ Strip(cell.text) # <<>>

\* [str(item).strip() for item in row if pd.notna(item) and str(item).strip() != '']
RECURSIVE CleanCells(_)
CleanCells(row) ==
    IF row = <<>> THEN <<>>
    ELSE IF KeepCell(Head(row))
         THEN <<Strip(Head(row).text)>> \o CleanCells(Tail(row))
         ELSE CleanCells(Tail(row))

\* trans[1:]
DropFirst(trans) == IF trans = <<>> THEN <<>> ELSE Tail(trans)

\* the transaction load_data appends for one row: clean, then drop the first
RowTransaction(row) == DropFirst(CleanCells(row))

RECURSIVE Flatten(_)
Flatten(ts) == IF ts = <<>> THEN <<>> ELSE Head(ts) \o Flatten(Tail(ts))

\* pd.Series(all_items).value_counts(): item -> number of occurrences
ValueCounts(all_items) ==
    [x \in { all_items[k] : k \in 1 .. Len(all_items) } |->
        Cardinality({ k \in 1 .. Len(all_items) : all_items[k] = x })]

InitLoad ==
    /\ pc = "load"
    /\ df \in SeqsUpTo(RawRows, MaxRows)
    /\ i = 1
    /\ transactions = <<>>
    /\ item_freq = EmptyMap
    /\ rules = <<>>
    /\ CoIdle /\ RecIdle /\ FilterIdle

\* one iteration of: for i in range(len(df))
LoadRow ==
    /\ pc = "load"
    /\ i <= Len(df)
    /\ transactions' = Append(transactions, RowTransaction(df[i]))
    /\ i' = i + 1
    /\ UNCHANGED <<pc, df, item_freq, rules, coVars, recVars, filterVars>>

\* after the loop: item frequencies, return
LoadFinish ==
    /\ pc = "load"
    /\ i > Len(df)
    /\ item_freq' = ValueCounts(Flatten(transactions))
    /\ pc' = "loaded"
    /\ UNCHANGED <<df, i, transactions, rules, coVars, recVars, filterVars>>

NextLoad == LoadRow \/ LoadFinish

SpecLoad == InitLoad /\ [][NextLoad]_vars

\* the cells of a row after position 0, trimmed, absent and blank ones removed
AfterFirstCell(row) ==
    IF row = <<>> THEN <<>> ELSE CleanCells(Tail(row))

\* C4: the transaction of a row is the cells after the row's first cell
\* (whatever that cell holds, blank or absent included), each trimmed, absent
\* and blank cells removed, in order; no non-blank cell at position >= 1 is
\* dropped.
C4_DropsFirstCellOnly ==
    \A k \in 1 .. Len(transactions) : transactions[k] = AfterFirstCell(df[k])

-----------------------------------------------------------------------------
(* Product Analysis page: co-occurrence count *)

\* items that occur in the transactions; "eggs" is a product of no transaction
Products == {"milk", "bread"}
NoSelection == ""
Targets == Products \cup {"eggs", NoSelection}

HeadRows == 20

\* if item != selected_product
IsOther_mut(item, target) == TRUE
IsOther(item, target) == item # target

\* co_occurrences[item] += 1 (a Counter: a missing key counts 0)
Increment(counter, item) ==
    [x \in (DOMAIN counter) \cup {item} |->
        IF x = item
        THEN (IF item \in DOMAIN counter THEN counter[item] ELSE 0) + 1
        ELSE counter[x]]

\* for item in transaction: if item != selected_product: co_occurrences[item] += 1
RECURSIVE CountItems(_, _, _)
CountItems(counter, transaction, target) ==
    IF transaction = <<>> THEN counter
    ELSE CountItems(IF IsOther(Head(transaction), target)
                    THEN Increment(counter, Head(transaction))
                    ELSE counter,
                    Tail(transaction), target)

\* selected_product in transaction
Contains(transaction, item) == \E k \in 1 .. Len(transaction) : transaction[k] = item

\* sum(1 for t in transactions if selected_product in t)
OccurrenceCount(target, ts) ==
    Cardinality({ k \in 1 .. Len(ts) : Contains(ts[k], target) })

\* DataFrame(co_occurrences.items()).sort_values('co_occurrence_count',
\* ascending=False): the rows by non-increasing count; sort_values uses
\* quicksort, which leaves the order of equal counts open
SortedFrames(counter) ==
    LET n == Cardinality(DOMAIN counter)
    IN  { [k \in 1 .. n |-> [product |-> f[k], co_occurrence_count |-> counter[f[k]]]] :
            f \in { g \in [1 .. n -> DOMAIN counter] :
                      /\ \A a, b \in 1 .. n : g[a] = g[b] => a = b
                      /\ \A a, b \in 1 .. n : a < b => counter[g[a]] >= counter[g[b]] } }

\* .head(20)
HeadOf(frame, n) == SubSeq(frame, 1, IF Len(frame) < n THEN Len(frame) ELSE n)

Baskets == SeqsUpTo(Products, MaxTransLen)

InitCo ==
    /\ pc = "product"
    /\ transactions \in SeqsUpTo(Baskets, MaxTrans)
    /\ selected_product \in Targets
    /\ tpos = 1
    /\ co_occurrences = EmptyMap
    /\ co_occur_df = <<>>
    /\ rules = <<>>
    /\ LoadIdle /\ RecIdle /\ FilterIdle

\* if selected_product: co_occurrences = Counter()
CoStart ==
    /\ pc = "product"
    /\ pc' = IF selected_product # NoSelection THEN "count" ELSE "no_product"
    /\ co_occurrences' = EmptyMap
    /\ tpos' = 1
    /\ UNCHANGED <<transactions, selected_product, co_occur_df, rules,
                   loadVars, recVars, filterVars>>

\* one iteration of: for transaction in transactions
CoTransaction ==
    /\ pc = "count"
    /\ tpos <= Len(transactions)
    /\ co_occurrences' =
          IF Contains(transactions[tpos], selected_product)
          THEN CountItems(co_occurrences, transactions[tpos], selected_product)
          ELSE co_occurrences
    /\ tpos' = tpos + 1
    /\ UNCHANGED <<pc, transactions, selected_product, co_occur_df, rules,
                   loadVars, recVars, filterVars>>

\* co_occur_df = DataFrame(...).sort_values(...).head(20)
CoFrame ==
    /\ pc = "count"
    /\ tpos > Len(transactions)
    /\ \E frame \in SortedFrames(co_occurrences) :
          co_occur_df' = HeadOf(frame, HeadRows)
    /\ pc' = "charted"
    /\ UNCHANGED <<transactions, selected_product, tpos, co_occurrences, rules,
                   loadVars, recVars, filterVars>>

NextCo == CoStart \/ CoTransaction \/ CoFrame

SpecCo == InitCo /\ [][NextCo]_vars

\* transactions that contain both items
Together(x, y) ==
    { k \in 1 .. Len(transactions) :
        /\ \E a \in 1 .. Len(transactions[k]) : transactions[k][a] = x
        /\ \E b \in 1 .. Len(transactions[k]) : transactions[k][b] = y }

\* C3: the count reported for another item X is the number of transactions
\* that contain both the target and X (an item repeated in one transaction
\* counts once), so no count exceeds occurrenceCount(target).
C3_CountsTransactions ==
    pc = "charted" =>
       \A k \in 1 .. Len(co_occur_df) :
          /\ co_occur_df[k].co_occurrence_count =
                Cardinality(Together(selected_product, co_occur_df[k].product))
          /\ co_occur_df[k].co_occurrence_count <=
                OccurrenceCount(selected_product, transactions)

\* C8: the target item is never in the output, and a target that occurs in
\* no transaction gives the empty sequence.
C8_TargetExcluded ==
    /\ selected_product \notin DOMAIN co_occurrences
    /\ \A k \in 1 .. Len(co_occur_df) : co_occur_df[k].product # selected_product
    /\ (pc = "charted" /\ Together(selected_product, selected_product) = {}) =>
          co_occur_df = <<>>

C8_Witness ==
    /\ pc = "charted"
    /\ Together(selected_product, selected_product) # {}
    /\ co_occur_df # <<>>

C8_WitnessAbsent ==
    /\ pc = "charted"
    /\ selected_product = "eggs"
    /\ Len(transactions) = MaxTrans
    /\ co_occur_df = <<>>

-----------------------------------------------------------------------------
(* Association Rules page: filter and sort *)

\* levels of the metrics of a rule and of the three sliders; a slider can sit
\* below, on and above every metric level
MetricLevels == {1, 2}
SliderLevels == {1, 2, 3}

FilterRows == { [antecedents |-> {"A"}, consequents |-> {"B"},
                 confidence |-> c, lift |-> l, support |-> s] :
                c \in MetricLevels, l \in MetricLevels, s \in MetricLevels }

\* (rules['confidence'] >= min_confidence) & (rules['lift'] >= min_lift)
\*                                         & (rules['support'] >= min_support)
KeepRule_strict(row, minc, minl, mins) ==
    /\ row.confidence > minc
    /\ row.lift > minl
    /\ row.support > mins
KeepRule(row, minc, minl, mins) ==
    /\ row.confidence >= minc
    /\ row.lift >= minl
    /\ row.support >= mins

\* rules[mask]: the index labels of the kept rows, in input order
RECURSIVE MaskFrom(_, _, _, _, _)
MaskFrom(rs, k, minc, minl, mins) ==
    IF k > Len(rs) THEN <<>>
    ELSE (IF KeepRule(rs[k], minc, minl, mins) THEN <<k>> ELSE <<>>)
         \o MaskFrom(rs, k + 1, minc, minl, mins)

Mask(rs, minc, minl, mins) == MaskFrom(rs, 1, minc, minl, mins)

\* .sort_values('lift', ascending=False): the labels by non-increasing lift;
\* sort_values uses quicksort (its default kind), which leaves the order of
\* rows of equal lift open
SortByLift_asc(rs, labels) ==
    LET n == Len(labels)
    IN  { [k \in 1 .. n |-> labels[f[k]]] :
            f \in { g \in Reorderings(n) :
                      \A a, b \in 1 .. n :
                         a < b => rs[labels[g[a]]].lift <= rs[labels[g[b]]].lift } }
SortByLift(rs, labels) ==
    LET n == Len(labels)
    IN  { [k \in 1 .. n |-> labels[f[k]]] :
            f \in { g \in Reorderings(n) :
                      \A a, b \in 1 .. n :
                         a < b => rs[labels[g[a]]].lift >= rs[labels[g[b]]].lift } }

InitFilter ==
    /\ pc = "rules"
    /\ rules \in SeqsUpTo(FilterRows, MaxFilterRules)
    /\ min_confidence \in SliderLevels
    /\ min_lift \in SliderLevels
    /\ min_support \in SliderLevels
    /\ filtered_rules = <<>>
    /\ transactions = <<>>
    /\ LoadIdle /\ CoIdle /\ RecIdle

\* a run of the page script with the sliders at (minc, minl, mins)
RunPage(minc, minl, mins) ==
    /\ min_confidence' = minc
    /\ min_lift' = minl
    /\ min_support' = mins
    /\ filtered_rules' \in SortByLift(rules, Mask(rules, minc, minl, mins))
    /\ pc' = "rules_shown"
    /\ UNCHANGED <<rules, transactions, loadVars, coVars, recVars>>

\* first run of the page
FilterRules ==
    /\ pc = "rules"
    /\ RunPage(min_confidence, min_lift, min_support)

\* moving a slider reruns the script
MoveConfidence ==
    /\ pc = "rules_shown"
    /\ \E v \in SliderLevels \ {min_confidence} : RunPage(v, min_lift, min_support)

MoveLift ==
    /\ pc = "rules_shown"
    /\ \E v \in SliderLevels \ {min_lift} : RunPage(min_confidence, v, min_support)

MoveSupport ==
    /\ pc = "rules_shown"
    /\ \E v \in SliderLevels \ {min_support} : RunPage(min_confidence, min_lift, v)

NextFilter == FilterRules \/ MoveConfidence \/ MoveLift \/ MoveSupport

SpecFilter == InitFilter /\ [][NextFilter]_vars

Labels(frame) == { frame[k] : k \in 1 .. Len(frame) }

\* the rules at or above all three thresholds
AtOrAbove(minc, minl, mins) ==
    { k \in 1 .. Len(rules) : /\ rules[k].confidence >= minc
                              /\ rules[k].lift >= minl
                              /\ rules[k].support >= mins }

\* C5: the filter keeps exactly the rules with confidence >= minConfidence,
\* lift >= minLift and support >= minSupport (a rule equal to a threshold is
\* kept), so raising thresholds only shrinks the result.
C5_InclusiveFilter ==
    pc = "rules_shown" =>
       /\ Labels(filtered_rules) = AtOrAbove(min_confidence, min_lift, min_support)
       /\ \A c2, l2, s2 \in SliderLevels :
             (c2 >= min_confidence /\ l2 >= min_lift /\ s2 >= min_support) =>
                Labels(Mask(rules, c2, l2, s2)) \subseteq Labels(filtered_rules)

C5_Witness ==
    /\ pc = "rules_shown"
    /\ \E k \in Labels(filtered_rules) :
          /\ rules[k].confidence = min_confidence
          /\ rules[k].lift = min_lift
          /\ rules[k].support = min_support
    /\ Len(filtered_rules) < Len(rules)

\* C6 as stated: the sorted rules are a permutation of the filtered rules in
\* non-increasing lift, and rules of equal lift keep their input order.
C6_StableSort ==
    pc = "rules_shown" =>
       /\ Len(filtered_rules) = Cardinality(Labels(filtered_rules))
       /\ Labels(filtered_rules) = AtOrAbove(min_confidence, min_lift, min_support)
       /\ \A a, b \in 1 .. Len(filtered_rules) :
             a < b =>
                /\ rules[filtered_rules[a]].lift >= rules[filtered_rules[b]].lift
                /\ rules[filtered_rules[a]].lift = rules[filtered_rules[b]].lift
                      => filtered_rules[a] < filtered_rules[b]

\* C6 amended: the sorted rules are a permutation of the filtered rules in
\* non-increasing lift; the order of rules of equal lift is not fixed.
C6_SortedByLift ==
    pc = "rules_shown" =>
       /\ Len(filtered_rules) = Cardinality(Labels(filtered_rules))
       /\ Labels(filtered_rules) = AtOrAbove(min_confidence, min_lift, min_support)
       /\ \A a, b \in 1 .. Len(filtered_rules) :
             a < b => rules[filtered_rules[a]].lift >= rules[filtered_rules[b]].lift

C6_Witness ==
    /\ pc = "rules_shown"
    /\ Len(filtered_rules) = 3
    /\ rules[1].lift < rules[2].lift
    /\ rules[2].lift = rules[3].lift

====
